---- MODULE Spec2Model ----
(***************************************************************************)
(* Model of src/src/ipv4.rs: the Ipv4Cidr block type and the Ipv4CidrList  *)
(* collection (a BTreeMap keyed by each member's first address).           *)
(*                                                                         *)
(* The program works on u32 addresses and sizes 0..32.  The model keeps    *)
(* the algorithms bit for bit but scales the address width down to W bits: *)
(* wherever the source says 32 the model says W, wherever it says 31 the   *)
(* model says W - 1, and u32 arithmetic wraps modulo 2^W.                  *)
(***************************************************************************)
EXTENDS Integers, Sequences, FiniteSets, TLC

\* Address width in bits (32 in the program).
W == 3

Modulus == 2 ^ W
MaxAddr == Modulus - 1
Addr == 0 .. MaxAddr
Masks == 0 .. W

VARIABLES
    inner,   \* Ipv4CidrList.inner of the list under insert/remove calls
    op,      \* the last call on that list: "new", "insert" or "remove"
    arg,     \* the block passed to the last call
    ret,     \* the bool the last call returned
    prev,    \* inner as it was when the last call started
    found,   \* the Option the last search_parent call returned
    from,    \* quickcheck input: low end of the range
    to,      \* quickcheck input: high end of the range
    c,       \* quickcheck input: the block removed and re-inserted
    list,    \* check_cidr_list_remove / check_cidr_list_change: `list`
    modl,    \* check_cidr_list_remove: `modl`
    rm,      \* check_cidr_list_remove: what modl.remove(&c) returned
    ins,     \* check_cidr_list_remove: what modl.insert(c) returned
    ranges,  \* check_cidr_list_change: what list.to_range() returned
    snap,    \* history: modl as modl.remove(&c) left it, before the re-insertion
    pc,      \* position of the quickcheck property being run
    ip,      \* quickcheck input: an address (`ip`, `xs`)
    im,      \* quickcheck input: a u8 (`i`, `ys`), the mask before `%`
    ip2,     \* address of a second block
    i2,      \* mask of a second block
    blk,     \* the Result of Ipv4Cidr::new on the inputs
    blk2,    \* the second block
    okay,    \* the bool a containment check returned
    rng,     \* what Ipv4Cidr::to_range returned
    text,    \* what to_string returned
    parsed,  \* the Result of Ipv4Cidr::from_str
    j,       \* check_cidr_list: the loop variable
    calls,   \* from_range: invocations of build so far
    stack,   \* the calls in progress on the list, innermost last, with their locals
    ovf,     \* history: some intermediate value left its type's range
    steps,   \* history: steps taken since the program's last call on the list
    ip_map,  \* examples/server.rs: Ipv4CidrRange.ip_map
    loc_map, \* examples/server.rs: Ipv4CidrRange.loc_map
    got      \* examples/server.rs: what the last Ipv4CidrRange::get returned

vars == <<inner, op, arg, ret, prev, found, from, to, c, list, modl, rm, ins,
          ranges, snap, pc, ip, im, ip2, i2, blk, blk2, okay, rng, text, parsed,
          j, calls, stack, ovf, steps, ip_map, loc_map, got>>

-----------------------------------------------------------------------------
(* u32 arithmetic at width W *)

\* x >> n on an unsigned value
Shr(x, n) == x \div (2 ^ n)

\* x << n on an unsigned value: bits shifted past the width are dropped
Shl(x, n) == (x * (2 ^ n)) % Modulus

\* wrapping x + y and x - y
Add(x, y) == (x + y) % Modulus
Sub(x, y) == (x - y + Modulus) % Modulus

-----------------------------------------------------------------------------
(* Option / Result values: <<>> is None or Err, <<v>> is Some(v) or Ok(v) *)

None == <<>>
Some(v) == <<v>>
\* Option::expect / Result::expect: the value inside (a panic when there is none)
Expect(r) == r[1]

-----------------------------------------------------------------------------
(* Ipv4Cidr *)

\* Ipv4Cidr::new keeping the address as given when 0 < mask < 32
new_unnormalized(net, mask) ==
    IF mask > W
    THEN None
    ELSE Some([net |-> IF mask = 0 THEN 0 ELSE net, size |-> W - mask])

\* Ipv4Cidr::new
new(net, mask) ==
    IF mask > W
    THEN None
    ELSE LET n == IF mask = 0 THEN 0
                  ELSE IF mask < W THEN Shl(Shr(net, W - mask), W - mask)
                  ELSE net
         IN  Some([net |-> n, size |-> W - mask])

\* contains_cidr without the `if self.size < cidr.size { return false; }`
contains_cidr_no_size(self, cidr) ==
    IF self.size = W THEN TRUE
    ELSE Shr(self.net, self.size) = Shr(cidr.net, self.size)

\* Ipv4Cidr::contains_cidr
contains_cidr(self, cidr) ==
    IF self.size = W THEN TRUE
    ELSE IF self.size < cidr.size THEN FALSE
    ELSE Shr(self.net, self.size) = Shr(cidr.net, self.size)

\* to_range ending one address past the block
cidr_to_range_off_by_one(self) ==
    IF self.size = W
    THEN <<0, MaxAddr>>
    ELSE <<self.net, Add(self.net, 2 ^ self.size)>>

\* Ipv4Cidr::to_range
cidr_to_range(self) ==
    IF self.size = W
    THEN <<0, MaxAddr>>
    ELSE <<self.net, Add(self.net, (2 ^ self.size) - 1)>>

\* Ipv4Addr::from(u32): the address as its big-endian digits.  The program
\* splits 32 bits into four octets; the model splits W bits into W binary
\* digits.
Ipv4AddrFrom(x) == [i \in 1 .. W |-> Shr(x, W - i) % 2]

\* u32::from(Ipv4Addr): the digits back to the number
RECURSIVE digits_to_u32(_, _, _)
digits_to_u32(o, k, acc) ==
    IF k > Len(o) THEN acc ELSE digits_to_u32(o, k + 1, acc * 2 + o[k])

U32From(o) == digits_to_u32(o, 1, 0)

\* Ipv4Cidr::contains_ip
contains_ip(self, addr) ==
    IF self.size = W THEN TRUE
    ELSE Shr(self.net, self.size) = Shr(U32From(addr), self.size)

-----------------------------------------------------------------------------
(* Text: a String is the sequence of its characters *)

Digits == <<"0", "1", "2", "3", "4", "5", "6", "7", "8", "9">>

IsDigit(ch) == \E d \in 1 .. 10 : Digits[d] = ch

DigitVal(ch) == (CHOOSE d \in 1 .. 10 : Digits[d] = ch) - 1

\* Display for an unsigned integer: its decimal digits
RECURSIVE dec(_)
dec(n) == IF n < 10 THEN <<Digits[n + 1]>> ELSE dec(n \div 10) \o <<Digits[(n % 10) + 1]>>

\* str::parse for an unsigned integer made of digits only
RECURSIVE parse_dec(_, _, _)
parse_dec(t, k, acc) ==
    IF k > Len(t) THEN acc ELSE parse_dec(t, k + 1, acc * 10 + DigitVal(t[k]))

\* Display for Ipv4Addr: the digits of the address in decimal, joined by '.'
\* (four octets in the program, W binary digits in the model)
RECURSIVE addr_fmt(_, _)
addr_fmt(o, k) ==
    IF k > Len(o) THEN <<>>
    ELSE (IF k > 1 THEN <<".">> ELSE <<>>) \o dec(o[k]) \o addr_fmt(o, k + 1)

\* Display for Ipv4Cidr rendering the size where the mask belongs
to_string_size(self) ==
    addr_fmt(Ipv4AddrFrom(self.net), 1) \o <<"/">> \o dec(self.size)

\* Display for Ipv4Cidr: "{}/{}" of first_ip() and mask()
to_string(self) ==
    addr_fmt(Ipv4AddrFrom(self.net), 1) \o <<"/">> \o dec(W - self.size)

\* the pieces of s between the occurrences of the character ch
RECURSIVE split(_, _, _, _)
split(s, ch, k, cur) ==
    IF k > Len(s) THEN <<cur>>
    ELSE IF s[k] = ch THEN <<cur>> \o split(s, ch, k + 1, <<>>)
    ELSE split(s, ch, k + 1, Append(cur, s[k]))

\* the regex piece (1?[0-9]{1,2}|2[0-4][0-9]|25[0-5]) matched against a whole
\* piece of the text
octet_re(t) ==
    /\ Len(t) \in 1 .. 3
    /\ \A k \in 1 .. Len(t) : IsDigit(t[k])
    /\ Len(t) = 3 =>
          \/ t[1] = "1"
          \/ t[1] = "2" /\ DigitVal(t[2]) <= 4
          \/ t[1] = "2" /\ t[2] = "5" /\ DigitVal(t[3]) <= 5

\* the regex piece ([0-9]|[12][0-9]|3[012])
mask_re(t) ==
    /\ Len(t) \in 1 .. 2
    /\ \A k \in 1 .. Len(t) : IsDigit(t[k])
    /\ Len(t) = 2 =>
          \/ t[1] \in {"1", "2"}
          \/ t[1] = "3" /\ DigitVal(t[2]) <= 2

\* Ipv4Addr::from_str on text the regex accepted: Err when a piece is above
\* the largest digit of the address (255 in the program, 1 in the model)
addr_from_str(pieces) ==
    LET o == [k \in 1 .. Len(pieces) |-> parse_dec(pieces[k], 1, 0)] IN
    IF \E k \in 1 .. Len(o) : o[k] > 1 THEN None ELSE Some(o)

\* impl FromStr for Ipv4Cidr: RE.captures(s), then the mask (32 when there is
\* none), the address, and Ipv4Cidr::new
from_str(s) ==
    LET parts  == split(s, "/", 1, <<>>)
        pieces == split(parts[1], ".", 1, <<>>)
        match  == /\ Len(parts) \in 1 .. 2
                  /\ Len(pieces) = W
                  /\ \A k \in 1 .. W : octet_re(pieces[k])
                  /\ Len(parts) = 2 => mask_re(parts[2])
    IN  IF match
        THEN LET ms    == IF Len(parts) = 2 THEN parse_dec(parts[2], 1, 0) ELSE W
                 addr  == Expect(addr_from_str(pieces))
             IN  new(U32From(addr), ms)
        ELSE None

-----------------------------------------------------------------------------
(* BTreeMap<u32, Ipv4Cidr> as a function from the keys present to blocks *)

EmptyMap == [k \in {} |-> [net |-> 0, size |-> 0]]

MapGet(m, k) == IF k \in DOMAIN m THEN Some(m[k]) ELSE None

MapRemove(m, k) == [x \in (DOMAIN m) \ {k} |-> m[x]]

MapInsert(m, k, v) == [x \in (DOMAIN m) \cup {k} |-> IF x = k THEN v ELSE m[x]]

SetMin(S) == CHOOSE x \in S : \A y \in S : x <= y

\* the keys in the order a BTreeMap iterator yields them
RECURSIVE KeySeq(_)
KeySeq(S) ==
    IF S = {} THEN <<>>
    ELSE LET k == SetMin(S) IN <<k>> \o KeySeq(S \ {k})

-----------------------------------------------------------------------------
(* Ipv4CidrList *)

\* Ipv4CidrList::search_parent, the inner `while net & 1 == 0` loop: None is
\* the `return None` inside it, otherwise the net and size it ends with
RECURSIVE skip_zero_bits(_, _)
skip_zero_bits(net, size) ==
    IF net % 2 = 0
    THEN IF size + 1 = W THEN None ELSE skip_zero_bits(Shr(net, 1), size + 1)
    ELSE Some([net |-> net, size |-> size])

\* search_parent giving up after the first probe instead of climbing
search_loop_no_climb(map, net, size) ==
    LET v == MapGet(map, net) IN
    IF v # None /\ Expect(v).size >= size THEN v ELSE None

\* search_parent taking a member only when its size equals the size of the
\* level probed
RECURSIVE search_loop_exact_size(_, _, _)
search_loop_exact_size(map, net, size) ==
    LET v == MapGet(map, net) IN
    IF v # None /\ Expect(v).size = size THEN v
    ELSE IF size = W THEN None
    ELSE LET s == skip_zero_bits(Shr(net, size), size) IN
         IF s = None THEN None
         ELSE search_loop_exact_size(map, Shl(Sub(Expect(s).net, 1), Expect(s).size),
                                     Expect(s).size + 1)

\* Ipv4CidrList::search_parent, one turn of the outer `loop`
RECURSIVE search_loop(_, _, _)
search_loop(map, net, size) ==
    LET v == MapGet(map, net) IN
    IF v # None /\ Expect(v).size >= size THEN v
    ELSE IF size = W THEN None
    ELSE LET s == skip_zero_bits(Shr(net, size), size) IN
         IF s = None THEN None
         ELSE search_loop(map, Shl(Sub(Expect(s).net, 1), Expect(s).size),
                          Expect(s).size + 1)

\* Ipv4CidrList::search_parent
search_parent(map, cidr) == search_loop(map, cidr.net, cidr.size)

\* Ipv4CidrList::contains_cidr
list_contains_cidr(map, cidr) == search_parent(map, cidr) # None

\* impl From<u32> for Ipv4Cidr
cidr_from_u32(addr) == Expect(new(addr, W))

\* impl From<Ipv4Addr> for Ipv4Cidr
cidr_from_addr(addr) == cidr_from_u32(U32From(addr))

\* Ipv4CidrList::contains_ip
list_contains_ip(map, addr) == list_contains_cidr(map, cidr_from_addr(addr))

\* delete_in_range that looks only under the key of cidr's first address,
\* not at the whole key range
delete_in_range_first_key(map, cidr) ==
    LET r   == cidr_to_range(cidr)
        rem == {k \in DOMAIN map : k = r[1] /\ contains_cidr(cidr, map[k])}
    IN  [inner |-> [x \in (DOMAIN map) \ rem |-> map[x]], changed |-> rem # {}]

\* delete_in_range that drops every member keyed in the range without asking
\* whether cidr contains it
delete_in_range_unchecked(map, cidr) ==
    LET r   == cidr_to_range(cidr)
        rem == {k \in DOMAIN map : r[1] <= k /\ k <= r[2]}
    IN  [inner |-> [x \in (DOMAIN map) \ rem |-> map[x]], changed |-> rem # {}]

\* Ipv4CidrList::delete_in_range
delete_in_range(map, cidr) ==
    LET r   == cidr_to_range(cidr)
        rem == {k \in DOMAIN map : r[1] <= k /\ k <= r[2] /\ contains_cidr(cidr, map[k])}
    IN  [inner |-> [x \in (DOMAIN map) \ rem |-> map[x]], changed |-> rem # {}]

\* the merge without its `continue`: one merge, then the insertion
merge_once(map, cidr) ==
    LET block == Shr(cidr.net, cidr.size)
        pair  == IF block % 2 = 0 THEN Shl(Add(block, 1), cidr.size)
                 ELSE Shl(Sub(block, 1), cidr.size)
        v     == MapGet(map, pair)
        up    == Expect(new(pair, (W - 1) - cidr.size))
    IN  IF cidr.size < W /\ v # None /\ Expect(v).size = cidr.size
        THEN MapInsert(MapRemove(map, pair), up.net, up)
        ELSE MapInsert(map, cidr.net, cidr)

\* Ipv4CidrList::insert, the merge `loop`
RECURSIVE merge_loop(_, _)
merge_loop(map, cidr) ==
    LET block == Shr(cidr.net, cidr.size)
        pair  == IF block % 2 = 0 THEN Shl(Add(block, 1), cidr.size)
                 ELSE Shl(Sub(block, 1), cidr.size)
        v     == MapGet(map, pair)
    IN  IF cidr.size < W /\ v # None /\ Expect(v).size = cidr.size
        THEN merge_loop(MapRemove(map, pair), Expect(new(pair, (W - 1) - cidr.size)))
        ELSE MapInsert(map, cidr.net, cidr)

\* insert without the delete_in_range call
insert_no_delete(map, cidr) ==
    IF list_contains_cidr(map, cidr)
    THEN [inner |-> map, ret |-> FALSE]
    ELSE [inner |-> merge_loop(map, cidr), ret |-> TRUE]

\* insert without the `if self.contains_cidr(&cidr) { return false; }`
insert_no_contains(map, cidr) ==
    LET d == delete_in_range(map, cidr) IN
    [inner |-> merge_loop(d.inner, cidr), ret |-> TRUE]

\* Ipv4CidrList::insert
insert(map, cidr) ==
    LET d == delete_in_range(map, cidr) IN
    IF list_contains_cidr(d.inner, cidr)
    THEN [inner |-> d.inner, ret |-> FALSE]
    ELSE [inner |-> merge_loop(d.inner, cidr), ret |-> TRUE]

\* Ipv4CidrList::from_range, the `while f != t` loop of build: the shifted f
\* and the number m of shifts
RECURSIVE common_prefix(_, _, _)
common_prefix(f, t, m) ==
    IF f # t THEN common_prefix(Shr(f, 1), Shr(t, 1), m + 1)
    ELSE [f |-> f, m |-> m]

\* build inserting the common-prefix block without comparing its range with
\* (from, to)
build_unchecked(lo, hi, map) ==
    LET p     == common_prefix(lo, hi, 0)
        block == Expect(new(IF p.m = W THEN 0 ELSE Shl(p.f, p.m), W - p.m))
    IN  insert(map, block).inner

\* build splitting every range of more than one address
RECURSIVE build_calls_split_all(_, _)
build_calls_split_all(lo, hi) ==
    LET p   == common_prefix(lo, hi, 0)
        mid == Shl(Add(Shl(p.f, 1), 1), p.m - 1)
    IN  IF lo = hi
        THEN 1
        ELSE 1 + build_calls_split_all(lo, Sub(mid, 1)) + build_calls_split_all(mid, hi)

\* the number of times from_range enters build for the range (lo, hi): this
\* call and the calls its two recursive calls make
RECURSIVE build_calls(_, _)
build_calls(lo, hi) ==
    LET p     == common_prefix(lo, hi, 0)
        block == Expect(new(IF p.m = W THEN 0 ELSE Shl(p.f, p.m), W - p.m))
        mid   == Shl(Add(Shl(p.f, 1), 1), p.m - 1)
    IN  IF cidr_to_range(block) = <<lo, hi>>
        THEN 1
        ELSE 1 + build_calls(lo, Sub(mid, 1)) + build_calls(mid, hi)

\* Ipv4CidrList::from_range, the nested fn build
RECURSIVE build(_, _, _)
build(lo, hi, map) ==
    LET p     == common_prefix(lo, hi, 0)
        block == Expect(new(IF p.m = W THEN 0 ELSE Shl(p.f, p.m), W - p.m))
        mid   == Shl(Add(Shl(p.f, 1), 1), p.m - 1)
    IN  IF cidr_to_range(block) = <<lo, hi>>
        THEN insert(map, block).inner
        ELSE build(mid, hi, build(lo, Sub(mid, 1), map))

\* Ipv4CidrList::from_range
from_range(lo, hi) ==
    IF lo > hi THEN EmptyMap ELSE build(lo, hi, EmptyMap)

\* the `while let` loop joining a block to the run when it starts at the
\* run's last address instead of one past it
RECURSIVE to_range_loop_off_by_one(_, _, _, _, _)
to_range_loop_off_by_one(map, keys, i, f, v) ==
    IF i > Len(keys)
    THEN Append(v, <<Ipv4AddrFrom(f[1]), Ipv4AddrFrom(f[2])>>)
    ELSE LET t == cidr_to_range(map[keys[i]]) IN
         IF t[1] = f[2]
         THEN to_range_loop_off_by_one(map, keys, i + 1, <<f[1], t[2]>>, v)
         ELSE to_range_loop_off_by_one(map, keys, i + 1, f,
                            Append(v, <<Ipv4AddrFrom(f[1]), Ipv4AddrFrom(f[2])>>))

\* Ipv4CidrList::to_range, the `while let` loop: keys from position i on,
\* f the run being grown, v the vector pushed so far
RECURSIVE to_range_loop(_, _, _, _, _)
to_range_loop(map, keys, i, f, v) ==
    IF i > Len(keys)
    THEN Append(v, <<Ipv4AddrFrom(f[1]), Ipv4AddrFrom(f[2])>>)
    ELSE LET t == cidr_to_range(map[keys[i]]) IN
         IF t[1] = Add(f[2], 1)
         THEN to_range_loop(map, keys, i + 1, <<f[1], t[2]>>, v)
         ELSE to_range_loop(map, keys, i + 1, f,
                            Append(v, <<Ipv4AddrFrom(f[1]), Ipv4AddrFrom(f[2])>>))

\* Ipv4CidrList::to_range
list_to_range(map) ==
    LET keys == KeySeq(DOMAIN map) IN
    IF keys = <<>> THEN <<>>
    ELSE to_range_loop(map, keys, 2, cidr_to_range(map[keys[1]]), <<>>)

\* the residual ranges with the upper one starting at cidr's last address
\* instead of one past it
residuals_off_by_one(cidr, v) ==
    LET a23 == cidr_to_range(cidr)
        a14 == cidr_to_range(v)
    IN  (IF a14[1] < a23[1] THEN <<<<a14[1], Sub(a23[1], 1)>>>> ELSE <<>>)
        \o (IF a23[2] < a14[2] THEN <<<<a23[2], a14[2]>>>> ELSE <<>>)

\* Ipv4CidrList::remove, the ranges put into `add`: what is left of the
\* parent v around cidr, in the order the code inserts them
residuals(cidr, v) ==
    LET a23 == cidr_to_range(cidr)
        a14 == cidr_to_range(v)
    IN  (IF a14[1] < a23[1] THEN <<<<a14[1], Sub(a23[1], 1)>>>> ELSE <<>>)
        \o (IF a23[2] < a14[2] THEN <<<<Add(a23[2], 1), a14[2]>>>> ELSE <<>>)

\* iteration over a HashSet: the order is unspecified; rev picks among the
\* orders of the (at most two) elements
hash_set_iter(s, rev) ==
    IF rev THEN [i \in 1 .. Len(s) |-> s[Len(s) + 1 - i]] ELSE s

\* the re-insertion stopping after the first block of the decomposition
insert_first_only(map, l, keys, i) ==
    IF i > Len(keys) THEN map ELSE insert(map, l[keys[i]]).inner

\* Ipv4CidrList::remove, `for (_, v) in Self::from_range(a, b) { self.insert(v) }`
RECURSIVE insert_each(_, _, _, _)
insert_each(map, l, keys, i) ==
    IF i > Len(keys) THEN map
    ELSE insert_each(insert(map, l[keys[i]]).inner, l, keys, i + 1)

\* Ipv4CidrList::remove, `for (a, b) in add { ... }`
RECURSIVE add_ranges(_, _, _)
add_ranges(map, add, i) ==
    IF i > Len(add) THEN map
    ELSE LET l == from_range(add[i][1], add[i][2]) IN
         add_ranges(insert_each(map, l, KeySeq(DOMAIN l), 1), add, i + 1)

\* Ipv4CidrList::remove
remove(map, cidr, rev) ==
    LET d == delete_in_range(map, cidr) IN
    IF d.changed THEN [inner |-> d.inner, ret |-> TRUE]
    ELSE LET p == search_parent(d.inner, cidr) IN
         IF p = None THEN [inner |-> d.inner, ret |-> TRUE]
         ELSE IF Expect(p) = cidr THEN [inner |-> d.inner, ret |-> FALSE]
         ELSE LET v   == Expect(p)
                  add == hash_set_iter(residuals(cidr, v), rev)
              IN  [inner |-> add_ranges(MapRemove(d.inner, v.net), add, 1),
                   ret |-> TRUE]

-----------------------------------------------------------------------------
(* The list under arbitrary insert and remove calls *)

DefaultCidr == [net |-> 0, size |-> 0]

ListIdle ==
    /\ inner = EmptyMap /\ op = "new" /\ arg = DefaultCidr
    /\ ret = FALSE /\ prev = EmptyMap /\ found = None
    /\ stack = <<>> /\ ovf = FALSE /\ steps = 0
    /\ ip_map = EmptyMap /\ loc_map = EmptyMap /\ got = None

TestIdle ==
    /\ from = 0 /\ to = 0 /\ c = DefaultCidr
    /\ list = EmptyMap /\ modl = EmptyMap
    /\ rm = FALSE /\ ins = FALSE /\ ranges = <<>> /\ snap = EmptyMap
    /\ pc = "idle"

PropIdle ==
    /\ ip = 0 /\ im = 0 /\ ip2 = 0 /\ i2 = 0
    /\ blk = None /\ blk2 = None /\ okay = FALSE
    /\ rng = <<0, 0>> /\ text = <<>> /\ parsed = None
    /\ j = 0 /\ calls = 0

callVars == <<stack, ovf, steps>>
indexVars == <<ip_map, loc_map, got>>
listVars == <<inner, op, arg, ret, prev, found, callVars, indexVars>>
testVars == <<from, to, c, list, modl, rm, ins, ranges, snap, pc>>
propVars == <<ip, im, ip2, i2, blk, blk2, okay, rng, text, parsed, j, calls>>

\* Ipv4CidrList::new
Init == ListIdle /\ TestIdle /\ PropIdle

\* list.insert(Ipv4Cidr::new(a, m).unwrap())
Insert(a, m) ==
    LET cidr == Expect(new(a, m))
        r    == insert(inner, cidr)
    IN  /\ inner' = r.inner
        /\ ret' = r.ret
        /\ op' = "insert"
        /\ arg' = cidr
        /\ prev' = inner
        /\ found' = None
        /\ UNCHANGED <<testVars, propVars, callVars, indexVars>>

\* list.remove(&Ipv4Cidr::new(a, m).unwrap())
Remove(a, m, rev) ==
    LET cidr == Expect(new(a, m))
        r    == remove(inner, cidr, rev)
    IN  /\ inner' = r.inner
        /\ ret' = r.ret
        /\ op' = "remove"
        /\ arg' = cidr
        /\ prev' = inner
        /\ found' = None
        /\ UNCHANGED <<testVars, propVars, callVars, indexVars>>

\* the blocks Ipv4Cidr::new can build
Cidrs == {Expect(new(a, m)) : a \in Addr, m \in Masks}

\* list.search_parent(&cidr)
SearchParent(cidr) ==
    /\ found' = search_parent(inner, cidr)
    /\ op' = "search_parent"
    /\ arg' = cidr
    /\ ret' = FALSE
    /\ prev' = inner
    /\ UNCHANGED <<inner, testVars, propVars, callVars, indexVars>>

\* list.contains_cidr(&cidr)
ContainsCidr(cidr) ==
    /\ ret' = list_contains_cidr(inner, cidr)
    /\ op' = "contains_cidr"
    /\ arg' = cidr
    /\ found' = None
    /\ prev' = inner
    /\ UNCHANGED <<inner, testVars, propVars, callVars, indexVars>>

\* list.contains_ip(&Ipv4Addr::from(a))
ContainsIp(a) ==
    /\ ret' = list_contains_ip(inner, Ipv4AddrFrom(a))
    /\ op' = "contains_ip"
    /\ arg' = cidr_from_u32(a)
    /\ found' = None
    /\ prev' = inner
    /\ UNCHANGED <<inner, testVars, propVars, callVars, indexVars>>

Next ==
    \/ \E a \in Addr, m \in Masks : Insert(a, m)
    \/ \E a \in Addr, m \in Masks, rev \in BOOLEAN : Remove(a, m, rev)
    \/ \E cidr \in Cidrs : SearchParent(cidr)
    \/ \E cidr \in Cidrs : ContainsCidr(cidr)
    \/ \E a \in Addr : ContainsIp(a)

Spec == Init /\ [][Next]_vars

-----------------------------------------------------------------------------
(* tests::check_cidr_list_remove(from, to, rem, m) *)

InitRemove ==
    /\ ListIdle /\ PropIdle
    /\ from \in Addr /\ to \in Addr
    /\ c \in Cidrs    \* Ipv4Cidr::new(rem, m % 33).unwrap()  (33 is W + 1)
    /\ list = EmptyMap /\ modl = EmptyMap
    /\ rm = FALSE /\ ins = FALSE /\ ranges = <<>> /\ snap = EmptyMap
    /\ pc = "rem_start"

\* let mut list = Ipv4CidrList::from_range(from, to); let mut modl = list.clone();
RemBuild ==
    /\ pc = "rem_start"
    /\ list' = from_range(from, to)
    /\ modl' = list'
    /\ pc' = "rem_built"
    /\ UNCHANGED <<listVars, propVars, from, to, c, rm, ins, ranges, snap>>

\* if modl.remove(&c)
RemRemove(rev) ==
    /\ pc = "rem_built"
    /\ LET r == remove(modl, c, rev) IN
         /\ modl' = r.inner
         /\ rm' = r.ret
         /\ snap' = r.inner
    /\ pc' = "rem_removed"
    /\ UNCHANGED <<listVars, propVars, from, to, c, list, ins, ranges>>

\* { assert_eq!(true, modl.insert(c));
RemInsertModl ==
    /\ pc = "rem_removed"
    /\ IF rm
       THEN LET r == insert(modl, c) IN
              /\ modl' = r.inner
              /\ ins' = r.ret
       ELSE UNCHANGED <<modl, ins>>
    /\ pc' = "rem_inserted"
    /\ UNCHANGED <<listVars, propVars, from, to, c, list, rm, ranges, snap>>

\*   list.insert(d); }  list == modl
RemInsertList ==
    /\ pc = "rem_inserted"
    /\ list' = IF rm THEN insert(list, c).inner ELSE list
    /\ pc' = "rem_done"
    /\ UNCHANGED <<listVars, propVars, from, to, c, modl, rm, ins, ranges, snap>>

NextRemove ==
    \/ RemBuild
    \/ \E rev \in BOOLEAN : RemRemove(rev)
    \/ RemInsertModl
    \/ RemInsertList

SpecRemove == InitRemove /\ [][NextRemove]_vars

-----------------------------------------------------------------------------
(* tests::check_cidr_list_change(from, to) *)

InitChange ==
    /\ ListIdle /\ PropIdle
    /\ from \in Addr /\ to \in Addr /\ c = DefaultCidr
    /\ list = EmptyMap /\ modl = EmptyMap
    /\ rm = FALSE /\ ins = FALSE /\ ranges = <<>> /\ snap = EmptyMap
    /\ pc = "chg_start"

\* from > to ||
ChgSkip ==
    /\ pc = "chg_start"
    /\ from > to
    /\ pc' = "chg_skipped"
    /\ UNCHANGED <<listVars, propVars, from, to, c, list, modl, rm, ins, ranges, snap>>

\* Ipv4CidrList::from_range(from, to)
ChgBuild ==
    /\ pc = "chg_start"
    /\ from <= to
    /\ list' = from_range(from, to)
    /\ pc' = "chg_built"
    /\ UNCHANGED <<listVars, propVars, from, to, c, modl, rm, ins, ranges, snap>>

\* .to_range()
ChgToRange ==
    /\ pc = "chg_built"
    /\ ranges' = list_to_range(list)
    /\ pc' = "chg_ranged"
    /\ UNCHANGED <<listVars, propVars, from, to, c, list, modl, rm, ins, snap>>

NextChange == ChgSkip \/ ChgBuild \/ ChgToRange

SpecChange == InitChange /\ [][NextChange]_vars

-----------------------------------------------------------------------------
(* The quickcheck properties on single blocks, and check_cidr_list *)

\* the values of a u8 argument (0..255 in the program): every mask 0..W and
\* as many values above W, so that `% (W + 1)` and `% W` wrap
U8 == 0 .. 2 * W + 1

InitCidr ==
    /\ ListIdle
    /\ from = 0 /\ to = 0 /\ c = DefaultCidr
    /\ list = EmptyMap /\ modl = EmptyMap
    /\ rm = FALSE /\ ins = FALSE /\ ranges = <<>> /\ snap = EmptyMap
    /\ ip \in Addr /\ im \in U8 /\ ip2 \in Addr /\ i2 \in Masks
    /\ blk = None /\ blk2 = None /\ okay = FALSE
    /\ rng = <<0, 0>> /\ text = <<>> /\ parsed = None
    /\ j = 0 /\ calls = 0
    /\ pc = "cidr_start"

cidrInputs == <<ip, im, ip2, i2>>

\* what no step of these properties changes
cidrFrame == <<listVars, cidrInputs, from, to, c, modl, rm, ins, ranges, snap, calls>>

\* tests::check_cidr_list: let mut list = Ipv4CidrList::new(); for j in 1..=32
ClStart ==
    /\ pc = "cidr_start"
    /\ list' = EmptyMap
    /\ j' = 1
    /\ pc' = "cl_loop"
    /\ UNCHANGED <<cidrFrame, blk, blk2, okay, rng, text, parsed>>

\* list.insert(Ipv4Cidr::new(ip, j).unwrap());
ClInsert ==
    /\ pc = "cl_loop"
    /\ j <= W
    /\ list' = insert(list, Expect(new(ip, j))).inner
    /\ j' = j + 1
    /\ UNCHANGED <<cidrFrame, blk, blk2, okay, rng, text, parsed, pc>>

\* list.inner.len() == 1
ClDone ==
    /\ pc = "cl_loop"
    /\ j > W
    /\ okay' = (Cardinality(DOMAIN list) = 1)
    /\ pc' = "cl_done"
    /\ UNCHANGED <<cidrFrame, list, j, blk, blk2, rng, text, parsed>>

\* Ipv4Cidr::new(ip, mask) for any u8 mask
Construct ==
    /\ pc = "cidr_start"
    /\ blk' = new(ip, im)
    /\ pc' = "new_done"
    /\ UNCHANGED <<cidrFrame, list, j, blk2, okay, rng, text, parsed>>

\* tests::check_contains_ip:
\* Ipv4Cidr::new(ip, i % 33).unwrap().contains_ip(&Ipv4Addr::from(ip))
CheckContainsIp ==
    /\ pc = "cidr_start"
    /\ blk' = new(ip, im % (W + 1))
    /\ okay' = contains_ip(Expect(blk'), Ipv4AddrFrom(ip))
    /\ pc' = "contains_ip_done"
    /\ UNCHANGED <<cidrFrame, list, j, blk2, rng, text, parsed>>

\* a.contains_cidr(&b) for two blocks built by Ipv4Cidr::new
BlockContains ==
    /\ pc = "cidr_start"
    /\ blk' = new(ip, im % (W + 1))
    /\ blk2' = new(ip2, i2)
    /\ okay' = contains_cidr(Expect(blk'), Expect(blk2'))
    /\ pc' = "contains_done"
    /\ UNCHANGED <<cidrFrame, list, j, rng, text, parsed>>

\* tests::check_contains_cidr: i = i % 32; a0 = new(ip, i); a1 = new(ip, i + 1);
\* a0.contains_cidr(&a1) && !a1.contains_cidr(&a0)
CheckContainsCidr ==
    /\ pc = "cidr_start"
    /\ blk' = new(ip, im % W)
    /\ blk2' = new(ip, (im % W) + 1)
    /\ okay' = (/\ contains_cidr(Expect(blk'), Expect(blk2'))
                /\ ~contains_cidr(Expect(blk2'), Expect(blk')))
    /\ pc' = "check_contains_done"
    /\ UNCHANGED <<cidrFrame, list, j, rng, text, parsed>>

\* Ipv4Cidr::new(ip, mask).unwrap().to_range()
ToRange ==
    /\ pc = "cidr_start"
    /\ blk' = new(ip, im % (W + 1))
    /\ rng' = cidr_to_range(Expect(blk'))
    /\ pc' = "to_range_done"
    /\ UNCHANGED <<cidrFrame, list, j, blk2, okay, text, parsed>>

\* tests::convert_tests: match Ipv4Cidr::new(xs, ys % 33) {
\*   Ok(ip) => ip == Ipv4Cidr::from_str(&ip.to_string()).unwrap(), _ => false }
Convert ==
    /\ pc = "cidr_start"
    /\ blk' = new(ip, im % (W + 1))
    /\ text' = to_string(Expect(blk'))
    /\ parsed' = from_str(text')
    /\ okay' = (blk' # None /\ Expect(blk') = Expect(parsed'))
    /\ pc' = "convert_done"
    /\ UNCHANGED <<cidrFrame, list, j, blk2, rng>>

NextCidr ==
    \/ ClStart
    \/ ClInsert
    \/ ClDone
    \/ Construct
    \/ CheckContainsIp
    \/ BlockContains
    \/ CheckContainsCidr
    \/ ToRange
    \/ Convert

SpecCidr == InitCidr /\ [][NextCidr]_vars

-----------------------------------------------------------------------------
(* What the claims speak of *)

\* the addresses of a block: net .. net + 2^size - 1
AddrsOf(b) == {a \in Addr : b.net <= a /\ a <= b.net + (2 ^ b.size) - 1}

\* the member blocks of a list
Members(map) == {map[k] : k \in DOMAIN map}

\* the addresses a list covers
Covered(map) == UNION {AddrsOf(b) : b \in Members(map)}

\* the maximal runs of consecutive addresses in S, ascending, as to_range
\* renders them
RunsOf(S) ==
    LET starts   == {a \in S : a = 0 \/ (a - 1) \notin S}
        EndOf(a) == CHOOSE e \in S : /\ e >= a
                                     /\ \A x \in a .. e : x \in S
                                     /\ (e = MaxAddr \/ (e + 1) \notin S)
        ks       == KeySeq(starts)
    IN  [i \in 1 .. Len(ks) |-> <<Ipv4AddrFrom(ks[i]), Ipv4AddrFrom(EndOf(ks[i]))>>]

\* the subsets of S with at most k elements
RECURSIVE SubsetsUpTo(_, _)
SubsetsUpTo(S, k) ==
    IF k <= 0 \/ S = {} THEN {{}}
    ELSE LET x == CHOOSE y \in S : TRUE IN
         SubsetsUpTo(S \ {x}, k) \cup {T \cup {x} : T \in SubsetsUpTo(S \ {x}, k - 1)}

\* the aligned blocks lying inside the address set S
BlocksInside(S) == {b \in Cidrs : AddrsOf(b) \subseteq S}

\* the aligned blocks inside S that no larger aligned block inside S contains
MaxBlocks(S) ==
    {b \in BlocksInside(S) :
        \A b2 \in BlocksInside(S) : AddrsOf(b) \subseteq AddrsOf(b2) => b2 = b}

\* the list determined by the address set S alone: its maximal aligned
\* blocks, each under its first address
CanonOf(S) ==
    [k \in {b.net : b \in MaxBlocks(S)} |-> CHOOSE b \in MaxBlocks(S) : b.net = k]

-----------------------------------------------------------------------------
(* Ipv4CidrList::from_range on every pair of addresses *)

InitRange ==
    /\ ListIdle /\ PropIdle
    /\ from \in Addr /\ to \in Addr /\ c = DefaultCidr
    /\ list = EmptyMap /\ modl = EmptyMap
    /\ rm = FALSE /\ ins = FALSE /\ ranges = <<>> /\ snap = EmptyMap
    /\ pc = "range_start"

\* Ipv4CidrList::from_range(from, to)
RangeBuild ==
    /\ pc = "range_start"
    /\ list' = from_range(from, to)
    /\ calls' = IF from > to THEN 0 ELSE build_calls(from, to)
    /\ pc' = "range_built"
    /\ UNCHANGED <<listVars, ip, im, ip2, i2, blk, blk2, okay, rng, text, parsed, j,
                   from, to, c, modl, rm, ins, ranges, snap>>

NextRange == RangeBuild

SpecRange == InitRange /\ [][NextRange]_vars

-----------------------------------------------------------------------------
(* The list operations step by step: every call is a frame on `stack`, and   *)
(* every turn of a loop is one step                                          *)

\* one call in progress: the function, the place in its body, and its locals
Frame(fn, at, cidr) ==
    [fn |-> fn, pc |-> at, cidr |-> cidr, net |-> 0, size |-> 0, last |-> -1,
     add |-> <<>>, todo |-> <<>>]

\* search_parent entered: let mut net = cidr.net; let mut size = cidr.size;
SearchFrame(cidr) ==
    [Frame("search_parent", "sp_loop", cidr) EXCEPT !.net = cidr.net, !.size = cidr.size]

Top == stack[Len(stack)]

Callers == SubSeq(stack, 1, Len(stack) - 1)

\* the running call goes on with its locals changed
Goto(f) == [stack EXCEPT ![Len(stack)] = f]

\* the running call calls another
Push(f, callee) == Append(Goto(f), callee)

At(fn, at) == stack # <<>> /\ Top.fn = fn /\ Top.pc = at

\* a shift amount the type allows: x >> n and x << n need n < 32
shift_in_range(n) == n \in 0 .. W - 1

u32_in_range(x) == x \in 0 .. MaxAddr

u8_in_range(x) == x \in U8

\* search_parent: `net >>= size` computes within range
probe_in_range(net, size) == shift_in_range(size)

\* one turn of search_parent's `while net & 1 == 0` that forgets `size += 1`
while_turn_no_count(net, size) ==
    IF net % 2 = 0
    THEN [exit |-> "again", net |-> Shr(net, 1), size |-> size]
    ELSE [exit |-> "climb", net |-> Shl(Sub(net, 1), size), size |-> size + 1]

\* search_parent: one turn of `while net & 1 == 0 { ... }`, or, when the
\* condition fails, the two assignments after it
while_turn(net, size) ==
    IF net % 2 = 0
    THEN IF size + 1 = W
         THEN [exit |-> "return", net |-> Shr(net, 1), size |-> size + 1]
         ELSE [exit |-> "again", net |-> Shr(net, 1), size |-> size + 1]
    ELSE [exit |-> "climb", net |-> Shl(Sub(net, 1), size), size |-> size + 1]

\* search_parent: what while_turn computes stays within range
while_in_range(net, size) ==
    IF net % 2 = 0
    THEN u8_in_range(size + 1)
    ELSE /\ u32_in_range(net - 1)
         /\ shift_in_range(size)
         /\ u32_in_range((net - 1) * (2 ^ size))
         /\ u8_in_range(size + 1)

\* insert: one turn of the merge `loop`; merged tells whether it took the
\* `continue`
merge_turn(map, cidr) ==
    LET block == Shr(cidr.net, cidr.size)
        pair  == IF block % 2 = 0 THEN Shl(Add(block, 1), cidr.size)
                 ELSE Shl(Sub(block, 1), cidr.size)
        v     == MapGet(map, pair)
    IN  IF cidr.size < W /\ v # None /\ Expect(v).size = cidr.size
        THEN [merged |-> TRUE, inner |-> MapRemove(map, pair),
              cidr |-> Expect(new(pair, (W - 1) - cidr.size))]
        ELSE [merged |-> FALSE, inner |-> MapInsert(map, cidr.net, cidr), cidr |-> cidr]

\* insert: what one turn of the merge loop computes stays within range
merge_in_range(cidr) ==
    cidr.size < W =>
        LET block == cidr.net \div (2 ^ cidr.size)
            pair  == IF block % 2 = 0 THEN block + 1 ELSE block - 1
        IN  /\ shift_in_range(cidr.size)
            /\ u32_in_range(pair)
            /\ u32_in_range(pair * (2 ^ cidr.size))
            /\ u8_in_range((W - 1) - cidr.size)

\* the ends of the residual ranges computed without looking whether there
\* is a residual on that side
residuals_in_range_unguarded(cidr, v) ==
    LET a23 == cidr_to_range(cidr) IN
    u32_in_range(a23[1] - 1) /\ u32_in_range(a23[2] + 1)

\* remove: `a2 - 1` and `a3 + 1` stay within range
residuals_in_range(cidr, v) ==
    LET a23 == cidr_to_range(cidr)
        a14 == cidr_to_range(v)
    IN  /\ a14[1] < a23[1] => u32_in_range(a23[1] - 1)
        /\ a23[2] < a14[2] => u32_in_range(a23[2] + 1)

\* from_range::build: the prefix block, the midpoint and mid - 1 stay within
\* range, here and in the calls build makes
RECURSIVE build_in_range(_, _)
build_in_range(lo, hi) ==
    LET p     == common_prefix(lo, hi, 0)
        block == Expect(new(IF p.m = W THEN 0 ELSE Shl(p.f, p.m), W - p.m))
        mid   == (p.f * 2 + 1) * (2 ^ (p.m - 1))
    IN  /\ u8_in_range(p.m)
        /\ p.m # W => (shift_in_range(p.m) /\ u32_in_range(p.f * (2 ^ p.m)))
        /\ u8_in_range(W - p.m)
        /\ cidr_to_range(block) # <<lo, hi>> =>
              /\ u32_in_range(p.f * 2 + 1)
              /\ shift_in_range(p.m - 1)
              /\ u32_in_range(mid)
              /\ u32_in_range(mid - 1)
              /\ build_in_range(lo, mid - 1)
              /\ build_in_range(mid, hi)

\* more steps than a call can take: a search takes at most 2W + 1 (every
\* turn of its `while` raises size, every probe but the first follows a
\* turn), an insert one search and at most W + 1 merge turns, a remove one
\* search and at most W inserts
MaxSteps == 3 * W * W + 7 * W + 6

InitSteps == ListIdle /\ TestIdle /\ PropIdle

\* the program calls list.search_parent(&cidr), list.insert(cidr) or
\* list.remove(&cidr)
Call(fn, cidr) ==
    /\ stack = <<>>
    /\ stack' = << IF fn = "search_parent" THEN SearchFrame(cidr)
                   ELSE IF fn = "insert" THEN Frame("insert", "ins_start", cidr)
                   ELSE Frame("remove", "rem_start", cidr) >>
    /\ op' = fn /\ arg' = cidr /\ prev' = inner
    /\ ret' = FALSE /\ found' = None
    /\ from' = 0 /\ to' = 0 /\ list' = EmptyMap
    /\ steps' = 0
    /\ UNCHANGED <<inner, ovf, indexVars, propVars, c, modl, rm, ins, ranges, snap, pc>>

\* the program calls Ipv4CidrList::from_range(lo, hi)
CallFromRange(lo, hi) ==
    /\ stack = <<>>
    /\ op' = "from_range" /\ arg' = DefaultCidr /\ prev' = inner
    /\ ret' = FALSE /\ found' = None
    /\ from' = lo /\ to' = hi
    /\ list' = from_range(lo, hi)
    /\ ovf' = (ovf \/ (lo <= hi /\ ~build_in_range(lo, hi)))
    /\ steps' = 0
    /\ UNCHANGED <<inner, stack, indexVars, propVars, c, modl, rm, ins, ranges, snap, pc>>

stepFrame == <<op, arg, prev, indexVars, testVars, propVars>>

\* search_parent, `loop {` up to `net >>= size;`
SpProbe ==
    /\ At("search_parent", "sp_loop")
    /\ LET f == Top
           v == MapGet(inner, f.net)
       IN  IF v # None /\ Expect(v).size >= f.size
           THEN /\ found' = v
                /\ stack' = Callers
                /\ ovf' = ovf
           ELSE IF f.size = W
           THEN /\ found' = None
                /\ stack' = Callers
                /\ ovf' = ovf
           ELSE /\ found' = found
                /\ stack' = Goto([f EXCEPT !.net = Shr(f.net, f.size), !.last = f.size,
                                           !.pc = "sp_while"])
                /\ ovf' = (ovf \/ ~probe_in_range(f.net, f.size))
    /\ UNCHANGED <<inner, ret, stepFrame>>

\* search_parent, one turn of the `while`, or `net = (net - 1) << size; size += 1;`
SpWhile ==
    /\ At("search_parent", "sp_while")
    /\ LET f == Top
           t == while_turn(f.net, f.size)
       IN  /\ ovf' = (ovf \/ ~while_in_range(f.net, f.size))
           /\ IF t.exit = "return"
              THEN found' = None /\ stack' = Callers
              ELSE /\ found' = found
                   /\ stack' = Goto([f EXCEPT !.net = t.net, !.size = t.size,
                                              !.pc = IF t.exit = "climb" THEN "sp_loop"
                                                     ELSE "sp_while"])
    /\ UNCHANGED <<inner, ret, stepFrame>>

\* insert: self.delete_in_range(&cidr); and the call self.contains_cidr(&cidr)
InsStart ==
    /\ At("insert", "ins_start")
    /\ inner' = delete_in_range(inner, Top.cidr).inner
    /\ stack' = Push([Top EXCEPT !.pc = "ins_contains"], SearchFrame(Top.cidr))
    /\ UNCHANGED <<ret, found, ovf, stepFrame>>

\* insert: if self.contains_cidr(&cidr) { return false; }
InsContains ==
    /\ At("insert", "ins_contains")
    /\ IF found # None
       THEN ret' = FALSE /\ stack' = Callers
       ELSE ret' = ret /\ stack' = Goto([Top EXCEPT !.pc = "ins_merge"])
    /\ UNCHANGED <<inner, found, ovf, stepFrame>>

\* insert: one turn of the merge `loop`
InsMerge ==
    /\ At("insert", "ins_merge")
    /\ LET f == Top
           t == merge_turn(inner, f.cidr)
       IN  /\ inner' = t.inner
           /\ ovf' = (ovf \/ ~merge_in_range(f.cidr))
           /\ IF t.merged
              THEN /\ stack' = Goto([f EXCEPT !.cidr = t.cidr, !.last = f.cidr.size])
                   /\ ret' = ret
              ELSE /\ stack' = Callers
                   /\ ret' = TRUE
    /\ UNCHANGED <<found, stepFrame>>

\* remove: if self.delete_in_range(cidr) { return true; } and the call
\* self.search_parent(cidr)
RemStart ==
    /\ At("remove", "rem_start")
    /\ LET d == delete_in_range(inner, Top.cidr) IN
       /\ inner' = d.inner
       /\ IF d.changed
          THEN ret' = TRUE /\ stack' = Callers
          ELSE /\ ret' = ret
               /\ stack' = Push([Top EXCEPT !.pc = "rem_searched"], SearchFrame(Top.cidr))
    /\ UNCHANGED <<found, ovf, stepFrame>>

\* remove: the body of `if let Some(v) = self.search_parent(cidr)`; rev is the
\* order in which the HashSet `add` will be iterated
RemSearched(rev) ==
    /\ At("remove", "rem_searched")
    /\ LET f == Top IN
       IF found = None
       THEN /\ stack' = Goto([f EXCEPT !.pc = "rem_add"])
            /\ UNCHANGED <<inner, ret, ovf>>
       ELSE IF Expect(found) = f.cidr
       THEN /\ ret' = FALSE
            /\ stack' = Callers
            /\ UNCHANGED <<inner, ovf>>
       ELSE /\ inner' = MapRemove(inner, Expect(found).net)
            /\ ovf' = (ovf \/ ~residuals_in_range(f.cidr, Expect(found)))
            /\ stack' = Goto([f EXCEPT
                                !.add = hash_set_iter(residuals(f.cidr, Expect(found)), rev),
                                !.pc = "rem_add"])
            /\ ret' = ret
    /\ UNCHANGED <<found, stepFrame>>

\* remove: `for (a, b) in add` takes the next range and decomposes it
RemNextRange ==
    /\ At("remove", "rem_add")
    /\ Top.todo = <<>> /\ Top.add # <<>>
    /\ LET f  == Top
           ab == Head(f.add)
           l  == from_range(ab[1], ab[2])
           ks == KeySeq(DOMAIN l)
       IN  /\ stack' = Goto([f EXCEPT !.add = Tail(f.add),
                                      !.todo = [i \in 1 .. Len(ks) |-> l[ks[i]]]])
           /\ ovf' = (ovf \/ ~build_in_range(ab[1], ab[2]))
    /\ UNCHANGED <<inner, ret, found, stepFrame>>

\* remove: `for (_, v) in Self::from_range(a, b) { self.insert(v); }`, one call
RemInsert ==
    /\ At("remove", "rem_add")
    /\ Top.todo # <<>>
    /\ stack' = Push([Top EXCEPT !.todo = Tail(Top.todo)],
                     Frame("insert", "ins_start", Head(Top.todo)))
    /\ UNCHANGED <<inner, ret, found, ovf, stepFrame>>

\* remove: the final `true`
RemDone ==
    /\ At("remove", "rem_add")
    /\ Top.todo = <<>> /\ Top.add = <<>>
    /\ ret' = TRUE
    /\ stack' = Callers
    /\ UNCHANGED <<inner, found, ovf, stepFrame>>

\* the next step of the innermost call in progress
Run ==
    \/ SpProbe
    \/ SpWhile
    \/ InsStart
    \/ InsContains
    \/ InsMerge
    \/ RemStart
    \/ \E rev \in BOOLEAN : RemSearched(rev)
    \/ RemNextRange
    \/ RemInsert
    \/ RemDone

\* the guards of the steps of Run: the innermost call stands at a place of
\* its body that has a step
Runnable ==
    \/ At("search_parent", "sp_loop")
    \/ At("search_parent", "sp_while")
    \/ At("insert", "ins_start")
    \/ At("insert", "ins_contains")
    \/ At("insert", "ins_merge")
    \/ At("remove", "rem_start")
    \/ At("remove", "rem_searched")
    \/ At("remove", "rem_add")

\* the steps of the calls in progress, counted
Step ==
    /\ steps <= MaxSteps
    /\ steps' = steps + 1
    /\ Run

NextSteps ==
    \/ \E fn \in {"search_parent", "insert", "remove"}, cidr \in Cidrs : Call(fn, cidr)
    \/ \E lo \in Addr, hi \in Addr : CallFromRange(lo, hi)
    \/ Step

\* a call that has started keeps running: the program is sequential code
SpecSteps == InitSteps /\ [][NextSteps]_vars /\ WF_vars(Step)

-----------------------------------------------------------------------------
(* examples/server.rs: Ipv4CidrRange, an index from blocks to location labels *)

\* the location strings put into the index
Labels == {"cn", "us"}

\* Ipv4CidrRange::hash: the md5 digest of the label folded into a u128; the
\* model gives each label a number of its own
hash(loc) == IF loc = "cn" THEN 1 ELSE 2

\* the two ways a build treats arithmetic overflow: "debug" panics
\* (overflow-checks on), "release" wraps and masks shift amounts
Builds == {"debug", "release"}

\* what get returns or how it ends: None is <<>>, Some(label) is <<label>>
Panic == <<"panic", "attempt to shift right with overflow">>
Hang == <<"hang", "get did not return">>

\* Ipv4CidrRange::insert
range_insert(ipm, locm, cidr, loc) ==
    LET h == hash(loc) IN
    [loc_map |-> IF h \in DOMAIN locm THEN locm ELSE MapInsert(locm, h, loc),
     ip_map  |-> MapInsert(ipm, U32From(Ipv4AddrFrom(cidr.net)), [cidr |-> cidr, h |-> h])]

\* Ipv4CidrRange::get, the inner `while net & 1 == 0`: None is its
\* `return None`, reached at once for net = 0 when size < 32 and, in a profile
\* that wraps, after size has gone round to 32 when size >= 32
RECURSIVE get_while(_, _)
get_while(net, size) ==
    IF net % 2 = 0
    THEN IF net = 0 \/ size + 1 = W THEN None ELSE get_while(Shr(net, 1), size + 1)
    ELSE Some([net |-> net, size |-> size])

\* Ipv4CidrRange::get, one turn of the outer `loop`; turns counts the turns
\* left before the walk is given up as not returning
RECURSIVE get_loop(_, _, _, _, _, _, _)
get_loop(ipm, locm, addr, net, size, profile, turns) ==
    LET e == MapGet(ipm, net) IN
    IF e # None
    THEN IF ~contains_ip(Expect(e).cidr, addr) THEN None ELSE MapGet(locm, Expect(e).h)
    ELSE IF size = W THEN None
    ELSE IF turns = 0 THEN Hang
    ELSE IF ~shift_in_range(size + 1) /\ profile = "debug" THEN Panic
    ELSE LET w == get_while(Shr(net, (size + 1) % W), size + 1) IN
         IF w = None THEN None
         ELSE get_loop(ipm, locm, addr,
                       Shl(Sub(Expect(w).net, 1), Expect(w).size % W),
                       Expect(w).size + 1, profile, turns - 1)

\* Ipv4CidrRange::get: let mut net = u32::from(ip.clone()); let mut size = 0;
\* every turn of the loop clears a set bit of net, so W + 2 turns are enough
get(ipm, locm, addr, profile) ==
    get_loop(ipm, locm, addr, U32From(addr), 0, profile, W + 2)

InitIndex == ListIdle /\ TestIdle /\ PropIdle

indexFrame == <<inner, op, arg, ret, prev, found, callVars, from, to, c, list, modl,
                rm, ins, ranges, snap, im, ip2, i2, blk, blk2, okay, rng, text,
                parsed, j, calls>>

\* r.insert(block, label) with a block that overlaps none already inserted
RangeInsert(cidr, loc) ==
    /\ \A k \in DOMAIN ip_map : AddrsOf(ip_map[k].cidr) \cap AddrsOf(cidr) = {}
    /\ LET r == range_insert(ip_map, loc_map, cidr, loc) IN
       /\ ip_map' = r.ip_map
       /\ loc_map' = r.loc_map
    /\ got' = None
    /\ ip' = 0
    /\ pc' = "idx_inserted"
    /\ UNCHANGED indexFrame

\* r.get(&Ipv4Addr::from(a))
RangeGet(a, profile) ==
    /\ got' = get(ip_map, loc_map, Ipv4AddrFrom(a), profile)
    /\ ip' = a
    /\ pc' = "idx_got"
    /\ UNCHANGED <<ip_map, loc_map, indexFrame>>

NextIndex ==
    \/ \E cidr \in Cidrs, loc \in Labels : RangeInsert(cidr, loc)
    \/ \E a \in Addr, profile \in Builds : RangeGet(a, profile)

SpecIndex == InitIndex /\ [][NextIndex]_vars

-----------------------------------------------------------------------------
(* Claims *)

\* C1: after any sequence of insert and remove calls from the empty list, no
\* two member blocks share an address (none contains or is contained by
\* another).
Disjointness ==
    \A k1, k2 \in DOMAIN inner :
        k1 # k2 => AddrsOf(inner[k1]) \cap AddrsOf(inner[k2]) = {}

\* an insert that swallowed a smaller member while other members stay
DisjointnessWitness ==
    /\ op = "insert"
    /\ \E k \in DOMAIN prev : prev[k] # arg /\ AddrsOf(prev[k]) \subseteq AddrsOf(arg)
    /\ Cardinality(DOMAIN inner) >= 2

\* C2: after any sequence of insert and remove calls the list never holds two
\* members of the same size whose bases differ only in bit `size`; and
\* inserting the lower half, then the third and the fourth quarter of the
\* address space leaves the single universal block.
LowerHalf == Expect(new(0, 1))
ThirdQuarter == Expect(new(2 ^ (W - 1), 2))
FourthQuarter == Expect(new(2 ^ (W - 1) + 2 ^ (W - 2), 2))
Universal == Expect(new(0, 0))

Minimality ==
    /\ \A k1, k2 \in DOMAIN inner :
          (k1 # k2 /\ inner[k1].size = inner[k2].size)
              => Shr(inner[k1].net, inner[k1].size + 1) # Shr(inner[k2].net, inner[k2].size + 1)
    /\ (op = "insert" /\ arg = FourthQuarter /\ Members(prev) = {LowerHalf, ThirdQuarter})
          => Members(inner) = {Universal}

\* the third insert of the example has run
MinimalityWitness ==
    /\ op = "insert" /\ arg = FourthQuarter
    /\ Members(prev) = {LowerHalf, ThirdQuarter}
    /\ Cardinality(DOMAIN inner) = 1

\* C3: insert(b) leaves the list covering exactly the addresses it covered
\* before united with the addresses of b.
InsertAddsExactly ==
    op = "insert" => Covered(inner) = Covered(prev) \cup AddrsOf(arg)

\* an insert that deleted a contained member and then merged with a sibling
InsertAddsExactlyWitness ==
    /\ op = "insert" /\ ret
    /\ \E k \in DOMAIN prev : prev[k] # arg /\ AddrsOf(prev[k]) \subseteq AddrsOf(arg)
    /\ arg \notin Members(inner)

\* C4: remove(b) leaves the list covering exactly the addresses it covered
\* before minus the addresses of b; a member that strictly contained b is
\* gone and the blocks that came in cover exactly that member minus b.
RemoveSubtractsExactly ==
    op = "remove" =>
        /\ Covered(inner) = Covered(prev) \ AddrsOf(arg)
        /\ \A v \in Members(prev) :
              (v # arg /\ AddrsOf(arg) \subseteq AddrsOf(v)) =>
                  /\ v \notin Members(inner)
                  /\ Covered([k \in {x \in DOMAIN inner : inner[x] \notin Members(prev)} |-> inner[k]])
                        = AddrsOf(v) \ AddrsOf(arg)

\* a remove that split a member, leaving a part below and a part above b
RemoveSubtractsExactlyWitness ==
    /\ op = "remove"
    /\ \E v \in Members(prev) :
          /\ AddrsOf(arg) \subseteq AddrsOf(v)
          /\ v.net < arg.net
          /\ \E a \in AddrsOf(v) : \A x \in AddrsOf(arg) : a > x

\* C5: remove(b) returns false and changes nothing when no member lies inside
\* b and no member contains b, and returns true otherwise.
RemoveReturnsChanged ==
    op = "remove" =>
        LET nothing == \A v \in Members(prev) :
                          /\ ~(AddrsOf(v) \subseteq AddrsOf(arg))
                          /\ ~(AddrsOf(arg) \subseteq AddrsOf(v))
        IN  /\ nothing => (ret = FALSE /\ inner = prev)
            /\ ~nothing => ret = TRUE

\* C6: insert(b) returns true exactly when the member blocks after the call
\* differ from the member blocks before it.
InsertReturnsChanged ==
    op = "insert" => (ret <=> Members(inner) # Members(prev))

\* C7: to_range() returns, ascending, exactly one tuple per maximal run of
\* covered addresses.
ToRangeExact ==
    list_to_range(inner) = RunsOf(Covered(inner))

\* C8 as the spec states it: when removing c from FromRange(from, to) changed
\* the list, re-inserting c restores the original list.
RemoveInsertRestores ==
    (pc = "rem_inserted" /\ snap # list) => modl = list

\* C8 amended: the same for a block c whose addresses all lie in from .. to.
RemoveInsertRestoresInside ==
    (pc = "rem_inserted" /\ snap # list /\ AddrsOf(c) \subseteq from .. to)
        => modl = list

\* c lay strictly inside a member, which remove split and insert merged back
RemoveInsertRestoresWitness ==
    /\ pc = "rem_inserted" /\ snap # list
    /\ AddrsOf(c) \subseteq from .. to
    /\ c \notin Members(list)
    /\ Cardinality(DOMAIN snap) > Cardinality(DOMAIN list)
    /\ modl = list

\* C9: in check_cidr_list_remove, when modl.remove(&c) returned true the
\* following modl.insert(c) returns true and modl equals list after
\* list.insert(c); when it returned false modl equals list.
RemoveThenInsertEqualsInsert ==
    pc = "rem_done" => ((rm => ins) /\ modl = list)

\* the property ran to its end on a range whose members c swallowed
RemoveThenInsertWitness ==
    /\ pc = "rem_done" /\ rm /\ ins /\ modl = list
    /\ from < to
    /\ Cardinality(DOMAIN snap) < Cardinality(DOMAIN from_range(from, to))
    /\ Cardinality(DOMAIN modl) >= 2

\* C10: for from <= to, FromRange(from, to).to_range() is the one-element
\* list [(from, to)].
RangeExactness ==
    pc = "chg_ranged" => ranges = << <<Ipv4AddrFrom(from), Ipv4AddrFrom(to)>> >>

\* a range that needs three or more blocks came back as one tuple
RangeExactnessWitness ==
    /\ pc = "chg_ranged"
    /\ Cardinality(DOMAIN list) >= 3
    /\ Len(ranges) = 1


\* C11 as the spec states it: inserting Construct(ip, j) for j = 1..W into an
\* empty list leaves exactly one member, the universal block.
MergeToUniversal ==
    pc = "cl_done" => Members(list) = {Universal}

\* C11 amended: it leaves exactly one member, the block Construct(ip, 1), the
\* half of the address space that holds ip.
MergeToHalf ==
    pc = "cl_done" => (okay /\ Members(list) = {Expect(new(ip, 1))})

\* the loop of check_cidr_list ran through all W masks, for an address of the
\* upper half
MergeToHalfWitness ==
    /\ pc = "cl_done" /\ j = W + 1
    /\ ip >= 2 ^ (W - 1)
    /\ Cardinality(DOMAIN list) = 1


\* C12: on every list reachable by insert and remove, contains_ip(a) is true
\* iff a lies in some member block, and contains_cidr(b) is true iff a single
\* member block contains b.
Membership ==
    /\ op = "contains_ip" => (ret <=> arg.net \in Covered(inner))
    /\ op = "contains_cidr" =>
          (ret <=> \E v \in Members(inner) : AddrsOf(arg) \subseteq AddrsOf(v))

\* a block found under a strictly larger member keyed at another address
MembershipWitness ==
    /\ op = "contains_cidr" /\ ret
    /\ arg.net \notin DOMAIN inner
    /\ Cardinality(DOMAIN inner) >= 2


\* C20: on every list reachable by insert and remove, search_parent(b)
\* returns a member block that contains b (b itself or an ancestor) when the
\* list has one, and None otherwise; the levels it skips hide no such member.
AncestorWalk ==
    op = "search_parent" =>
        LET holders == {v \in Members(inner) : AddrsOf(arg) \subseteq AddrsOf(v)} IN
        IF holders = {} THEN found = None
        ELSE found # None /\ Expect(found) \in holders

\* the walk skipped a zero bit of b's base and found the ancestor under
\* another key
AncestorWalkWitness ==
    /\ op = "search_parent" /\ found # None
    /\ Expect(found).net # arg.net
    /\ arg.size < W - 1
    /\ arg.net % (2 ^ (arg.size + 1)) = 0


\* C13: after any sequence of insert and remove calls no collection of
\* aligned blocks with fewer members covers exactly the same addresses, and
\* the list is the one its covered addresses determine, so that two lists
\* reached in different ways and covering the same addresses are equal.
SmallestCanonical ==
    LET S == Covered(inner)
        n == Cardinality(DOMAIN inner)
    IN  /\ n > 0 => \A T \in SubsetsUpTo(BlocksInside(S), n - 1) :
                        UNION {AddrsOf(b) : b \in T} # S
        /\ inner = CanonOf(S)

\* a remove split a member and left three or more blocks
SmallestCanonicalWitness ==
    /\ op = "remove" /\ inner # prev
    /\ \E v \in Members(prev) : v # arg /\ AddrsOf(arg) \subseteq AddrsOf(v)
    /\ Cardinality(DOMAIN inner) >= 3


\* C14: a.contains_cidr(b) is true iff every address of b is an address of
\* a; so a block contains itself, and Construct(ip, i) contains
\* Construct(ip, i + 1) but not the other way round.
ContainmentIsInclusion ==
    /\ pc = "contains_done" =>
          /\ okay <=> (AddrsOf(Expect(blk2)) \subseteq AddrsOf(Expect(blk)))
          /\ blk = blk2 => okay
    /\ pc = "check_contains_done" => okay

\* the smaller block shares the prefix of the larger one and was asked to
\* contain it
ContainmentWitness ==
    /\ pc = "contains_done" /\ ~okay
    /\ Expect(blk).size < Expect(blk2).size
    /\ Expect(blk2).size < W
    /\ AddrsOf(Expect(blk)) \subseteq AddrsOf(Expect(blk2))

\* C15: for every block built from a mask 0..W, to_range() returns
\* (low, high) with low the base, low <= high, high - low + 1 = 2^size and
\* nothing above the largest address; for size W it returns (0, 2^W - 1).
RangeValidity ==
    pc = "to_range_done" =>
        LET b == Expect(blk) IN
        /\ rng[1] = b.net
        /\ rng[1] <= rng[2]
        /\ rng[2] <= MaxAddr
        /\ b.size < W => (2 ^ b.size <= MaxAddr /\ b.net + (2 ^ b.size) - 1 <= MaxAddr)
        /\ rng[2] - rng[1] + 1 = 2 ^ b.size
        /\ b.size = W => rng = <<0, MaxAddr>>

\* the last block of its size, whose high end is the largest address
RangeValidityWitness ==
    /\ pc = "to_range_done"
    /\ Expect(blk).size \in 1 .. W - 1
    /\ rng[2] = MaxAddr

\* C16: Construct(address, mask) fails iff mask > W; otherwise size is
\* W - mask, the base is the address with its low `size` bits cleared (0 for
\* mask 0), and the block contains the address.
ConstructNormalizes ==
    /\ pc = "new_done" =>
          /\ blk = None <=> im > W
          /\ im <= W =>
                LET b == Expect(blk) IN
                /\ b.size = W - im
                /\ b.net = ip - (ip % (2 ^ b.size))
                /\ b.net % (2 ^ b.size) = 0
                /\ im = 0 => b.net = 0
                /\ ip \in AddrsOf(b)
    /\ pc = "contains_ip_done" => okay

\* an unaligned address was normalized down
ConstructNormalizesWitness ==
    /\ pc = "new_done" /\ blk # None
    /\ Expect(blk).size \in 1 .. W - 1
    /\ Expect(blk).net # ip

\* C17: parsing the text rendered for Construct(address, mask) succeeds and
\* yields a block equal to Construct(address, mask).
TextRoundTrip ==
    pc = "convert_done" => (parsed # None /\ parsed = blk /\ okay)

\* a normalized block went through to_string and from_str
TextRoundTripWitness ==
    /\ pc = "convert_done" /\ okay
    /\ Expect(blk).size \in 1 .. W - 1
    /\ Expect(blk).net # 0
    /\ Expect(blk).net # ip


\* a quarter of the address space that starts on its own boundary, as
\* 1.0.0.0 - 1.0.0.255 is a whole /24
SecondQuarter == Expect(new(2 ^ (W - 2), 2))

\* C18: the members of from_range(low, high) are pairwise disjoint aligned
\* blocks whose union is exactly the addresses low..high (none when
\* low > high), and no collection of fewer aligned blocks has that union; an
\* aligned range gives its single block and the whole space the universal one.
RangeDecomposition ==
    pc = "range_built" =>
        LET S == {a \in Addr : from <= a /\ a <= to}
            n == Cardinality(DOMAIN list)
        IN  /\ \A k \in DOMAIN list :
                  /\ list[k] \in Cidrs
                  /\ list[k].net = k
                  /\ k % (2 ^ list[k].size) = 0
            /\ \A k1, k2 \in DOMAIN list :
                  k1 # k2 => AddrsOf(list[k1]) \cap AddrsOf(list[k2]) = {}
            /\ Covered(list) = S
            /\ from > to => list = EmptyMap
            /\ n > 0 => \A T \in SubsetsUpTo(BlocksInside(S), n - 1) :
                            UNION {AddrsOf(b) : b \in T} # S
            /\ (from = 0 /\ to = MaxAddr) => Members(list) = {Universal}
            /\ (from = 2 ^ (W - 2) /\ to = 2 ^ (W - 1) - 1)
                  => Members(list) = {SecondQuarter}

\* the range that needs the most blocks
RangeDecompositionWitness ==
    /\ pc = "range_built"
    /\ from = 1 /\ to = MaxAddr - 1
    /\ Cardinality(DOMAIN list) = 2 * (W - 1)

\* C19 as the spec states it: from_range(low, high) with low <= high enters
\* build at most 2 x W times.
BuildCallsTwiceWidth ==
    (pc = "range_built" /\ from <= to) => calls <= 2 * W

\* C19 amended: it enters build at most 4 x W - 5 times (123 for the 32-bit
\* program): one call per block of the answer and one per split, and a range
\* has at most 2 x (W - 1) blocks.
BuildCallsBound ==
    (pc = "range_built" /\ from <= to) => (calls >= 1 /\ calls <= 4 * W - 5)

\* the bound is met
BuildCallsBoundWitness ==
    /\ pc = "range_built" /\ from <= to
    /\ calls = 4 * W - 5
    /\ calls = 2 * Cardinality(DOMAIN list) - 1


\* the steps of a finished call add up to what the call does as a whole
StepsAgree ==
    stack = <<>> =>
        /\ op = "search_parent" => (found = search_parent(prev, arg) /\ inner = prev)
        /\ op = "insert" =>
              (inner = insert(prev, arg).inner /\ ret = insert(prev, arg).ret)
        /\ op = "remove" =>
              \E rev \in BOOLEAN :
                  inner = remove(prev, arg, rev).inner /\ ret = remove(prev, arg, rev).ret

\* at the head of the search loop and of the merge loop the candidate size
\* is above what it was at the head before, and no size is above W
SizesGrow ==
    \A n \in 1 .. Len(stack) :
        LET f == stack[n] IN
        /\ f.fn = "search_parent" =>
              /\ f.size <= W
              /\ f.pc = "sp_loop" => f.last < f.size
              /\ f.pc = "sp_while" => f.last <= f.size
        /\ f.fn = "insert" => (f.cidr.size <= W /\ f.last < f.cidr.size)

\* C21: every search_parent, insert and remove call on a reachable list
\* returns after finitely many steps: a call in progress always has a next
\* step and has taken no more than MaxSteps (the merge loop and the
\* re-insertion of the residual blocks included); the candidate size grows
\* strictly from one turn of the search and merge loops to the next without
\* passing W.
Termination ==
    /\ SizesGrow
    /\ steps <= MaxSteps
    /\ stack # <<>> => Runnable

\* a remove that split a member and re-inserted three residual blocks has
\* returned
TerminationWitness ==
    /\ stack = <<>> /\ op = "remove" /\ ret
    /\ Cardinality(DOMAIN prev) = 1
    /\ Cardinality(DOMAIN inner) >= 3

\* C22: no intermediate value of from_range (prefix block, midpoint,
\* mid - 1), search_parent (net - 1, the shifts), insert (pair address,
\* merged mask) or remove (a2 - 1, a3 + 1) leaves its type's range, no shift
\* amount reaches W, and the locals of every call stay addresses and sizes.
NoOverflow ==
    /\ ~ovf
    /\ \A n \in 1 .. Len(stack) :
          /\ stack[n].net \in Addr
          /\ stack[n].size \in 0 .. W
          /\ stack[n].cidr \in Cidrs

\* the upper half of the address space was inserted next to the lower half
\* and merged into the universal block
NoOverflowWitness ==
    /\ stack = <<>> /\ op = "insert" /\ ret
    /\ arg.size = W - 1 /\ arg.net + (2 ^ arg.size) - 1 = MaxAddr
    /\ Members(prev) = {LowerHalf}
    /\ Members(inner) = {Universal}


\* the label inserted with the block that holds address a, if there is one
LabelOf(a) ==
    LET hit == {k \in DOMAIN ip_map : a \in AddrsOf(ip_map[k].cidr)} IN
    IF hit = {} THEN None
    ELSE Some(CHOOSE l \in Labels : \E k \in hit : hash(l) = ip_map[k].h)

\* C23: for an index filled by insert(block, label) with pairwise
\* non-overlapping blocks, get(ip) returns the label of the inserted block
\* that contains ip when there is one, and None when there is none.
LabelLookup ==
    pc = "idx_got" => got = LabelOf(ip)

====
